---- MODULE Spec2Model ----
(***************************************************************************)
(* Commitment phase of the Groth-Sahai proof system, SXDH instantiation    *)
(* (src/src/commit.rs).  Eight operations commit a source-group element or *)
(* a scalar, alone or in a batch, into the commitment group B1 or B2.      *)
(*                                                                         *)
(* The scalar field Fr and the source groups G1, G2 are cyclic of order P; *)
(* an element of G1 or G2 is written as its multiple of the generator.     *)
(* A commitment-group element is kept as a formal combination              *)
(*     i(lin) + i'(slin) + SUM k[<<r, c>>] * key[r][c]                      *)
(* of the embedding of a group element, the embedding of a scalar and the  *)
(* entries of the key matrix of its side, so that two elements are equal   *)
(* only when the group laws make them equal for every key.                 *)
(***************************************************************************)
EXTENDS Integers, Sequences, FiniteSets, TLC

VARIABLES key, rng, call, spent

vars == <<key, rng, call, spent>>

\* Order of the scalar field and of the two source groups.
P == 2
\* Longest input sequence handed to a batch operation.
MaxLen == 2
\* The randomness source is stopped after this many scalars.
MaxDraws == 2

Fr == 0 .. (P - 1)
G1Affine == 0 .. (P - 1)
G2Affine == 0 .. (P - 1)

\* Positions of a key matrix, written as the code indexes them (from 0).
KeyIdx == (0 .. 1) \X (0 .. 1)

\* Sequences over S of length 0 .. MaxLen: the inputs of a batch operation.
Vecs(S) == UNION {[1 .. n -> S] : n \in 0 .. MaxLen}

-----------------------------------------------------------------------------
(* The randomness source.  Its state is the number n of scalars issued so  *)
(* far and the stream fixed when it was seeded.  A scalar it issues is     *)
(* [d, s]: the value s and the index d of the draw that produced it.       *)

Output(g, i) == IF i \in DOMAIN g.stream THEN g.stream[i] ELSE 0

Fr_rand(g) == [d |-> g.n + 1, s |-> Output(g, g.n + 1)]

Advance(g) == [g EXCEPT !.n = g.n + 1]

Skip(g, k) == [g EXCEPT !.n = g.n + k]

\* A source whose next outputs are the values of the sequence vals.
Seeded(vals) == [n |-> 0, stream |-> vals]

-----------------------------------------------------------------------------
(* The commitment groups B1 (side 1) and B2 (side 2).                      *)

ZeroK == [ix \in KeyIdx |-> 0]

ComZero(side) == [side |-> side, lin |-> 0, slin |-> 0, k |-> ZeroK]

ComAdd(a, b) ==
    [side |-> a.side,
     lin  |-> (a.lin + b.lin) % P,
     slin |-> (a.slin + b.slin) % P,
     k    |-> [ix \in KeyIdx |-> (a.k[ix] + b.k[ix]) % P]]

\* elem * r for a commitment-group element elem and a scalar r.
scalar_mul(elem, r) ==
    [side |-> elem.side,
     lin  |-> (elem.lin * r.s) % P,
     slin |-> (elem.slin * r.s) % P,
     k    |-> [ix \in KeyIdx |-> (elem.k[ix] * r.s) % P]]

\* The entry of the key matrix of the given side at row i, column j.
Basis(side, i, j) ==
    [side |-> side, lin |-> 0, slin |-> 0,
     k |-> [ix \in KeyIdx |-> IF ix = <<i, j>> THEN 1 ELSE 0]]

\* i_1, i_2: the embedding of a source-group element.
Com1_linear_map(x) == [side |-> 1, lin |-> x, slin |-> 0, k |-> ZeroK]
Com2_linear_map(y) == [side |-> 2, lin |-> y, slin |-> 0, k |-> ZeroK]

\* i_1', i_2': the embedding of a scalar.
Com1_scalar_linear_map(x, crs) == [side |-> 1, lin |-> 0, slin |-> x, k |-> ZeroK]
Com2_scalar_linear_map(y, crs) == [side |-> 2, lin |-> 0, slin |-> y, k |-> ZeroK]

Com1_batch_linear_map(xs) == [i \in 1 .. Len(xs) |-> Com1_linear_map(xs[i])]
Com2_batch_linear_map(ys) == [i \in 1 .. Len(ys) |-> Com2_linear_map(ys[i])]

Com1_batch_scalar_linear_map(xs, crs) ==
    [i \in 1 .. Len(xs) |-> Com1_scalar_linear_map(xs[i], crs)]
Com2_batch_scalar_linear_map(ys, crs) ==
    [i \in 1 .. Len(ys) |-> Com2_scalar_linear_map(ys[i], crs)]

-----------------------------------------------------------------------------
(* Matrices: a matrix is the sequence of its rows.                         *)

\* M[i][j] with the code's indices, which start at 0.
At(M, i, j) == M[i + 1][j + 1]

\* The positions of M, as the code indexes them.
Indices(M) == UNION {{<<i - 1, j - 1>> : j \in 1 .. Len(M[i])} : i \in 1 .. Len(M)}

vec_to_col_vec(v) == [i \in 1 .. Len(v) |-> <<v[i]>>]

col_vec_to_vec(M) == [i \in 1 .. Len(M) |-> M[i][1]]

\* Entrywise addition is defined on matrices of equal dimensions.
AddDimsOK(A, B) ==
    /\ Len(A) = Len(B)
    /\ \A i \in 1 .. Len(A) : Len(A[i]) = Len(B[i])

add(A, B) == [i \in 1 .. Len(A) |-> [j \in 1 .. Len(A[i]) |-> ComAdd(A[i][j], B[i][j])]]

\* lhs * self is defined when every row of lhs is as long as self is high.
MulDimsOK(self, lhs) == \A i \in 1 .. Len(lhs) : Len(lhs[i]) = Len(self)

RECURSIVE Dot(_, _, _, _)
\* SUM over r <= k of self[r][j] * row[r].
Dot(self, row, j, k) ==
    IF k = 0 THEN ComZero(self[1][1].side)
    ELSE ComAdd(Dot(self, row, j, k - 1), scalar_mul(self[k][j], row[k]))

\* The matrix product lhs * self (self.left_mul(&lhs, is_parallel)).
left_mul(self, lhs, is_parallel) ==
    [i \in 1 .. Len(lhs) |->
        [j \in 1 .. Len(self[1]) |-> Dot(self, lhs[i], j, Len(self))]]

-----------------------------------------------------------------------------
(* The key.  cols is the number of columns of u and of v.                  *)

CRS(cols) ==
    [u |-> [i \in 1 .. 2 |-> [j \in 1 .. cols |-> Basis(1, i - 1, j - 1)]],
     v |-> [i \in 1 .. 2 |-> [j \in 1 .. cols |-> Basis(2, i - 1, j - 1)]]]

-----------------------------------------------------------------------------
(* The eight operations.  Each returns                                     *)
(*   out   the commitments, in order (one for a single commitment),        *)
(*   R     the randomness matrix it built,                                 *)
(*   rng   the randomness source as the call leaves it,                    *)
(*   panic TRUE when a matrix operation met mismatched dimensions,         *)
(*   reads the key positions read for the randomisation term.              *)

\* commit_G1 with the two randomisers attached to the wrong basis elements.
commit_G1_swapped(xvar, crs, g) ==
    LET r1 == Fr_rand(g)
        g1 == Advance(g)
        r2 == Fr_rand(g1)
        g2 == Advance(g1)
    IN  [out   |-> <<ComAdd(ComAdd(Com1_linear_map(xvar),
                                   scalar_mul(At(crs.u, 0, 0), r2)),
                            scalar_mul(At(crs.u, 1, 0), r1))>>,
         R     |-> <<<<r1, r2>>>>,
         rng   |-> g2,
         panic |-> FALSE,
         reads |-> {<<0, 0>>, <<1, 0>>}]

commit_G1(xvar, crs, g) ==
    LET r1 == Fr_rand(g)
        g1 == Advance(g)
        r2 == Fr_rand(g1)
        g2 == Advance(g1)
    IN  [out   |-> <<ComAdd(ComAdd(Com1_linear_map(xvar),
                                   scalar_mul(At(crs.u, 0, 0), r1)),
                            scalar_mul(At(crs.u, 1, 0), r2))>>,
         R     |-> <<<<r1, r2>>>>,
         rng   |-> g2,
         panic |-> FALSE,
         reads |-> {<<0, 0>>, <<1, 0>>}]

\* batch_commit_G1 whose randomisation term leaves out u[1][0].
batch_commit_G1_first_basis(xvars, crs, g) ==
    LET m     == Len(xvars)
        R     == [i \in 1 .. m |->
                     LET r == Fr_rand(Skip(g, i - 1)) IN [j \in 1 .. 2 |-> r]]
        lin_x == vec_to_col_vec(Com1_batch_linear_map(xvars))
        Ru    == [i \in 1 .. m |-> <<scalar_mul(At(crs.u, 0, 0), R[i][1])>>]
        ok    == AddDimsOK(lin_x, Ru)
    IN  [out   |-> IF ok THEN col_vec_to_vec(add(lin_x, Ru)) ELSE <<>>,
         R     |-> R,
         rng   |-> Skip(g, m),
         panic |-> ~ok,
         reads |-> IF m = 0 THEN {} ELSE {<<0, 0>>}]

\* batch_commit_G1 whose sampling loop runs once more than there are inputs.
batch_commit_G1_extra_row(xvars, crs, g) ==
    LET m     == Len(xvars)
        R     == [i \in 1 .. m + 1 |->
                     LET r == Fr_rand(Skip(g, i - 1)) IN [j \in 1 .. 2 |-> r]]
        lin_x == vec_to_col_vec(Com1_batch_linear_map(xvars))
        ok    == /\ MulDimsOK(crs.u, R)
                 /\ AddDimsOK(lin_x, left_mul(crs.u, R, FALSE))
    IN  [out   |-> IF ok THEN col_vec_to_vec(add(lin_x, left_mul(crs.u, R, FALSE)))
                         ELSE <<>>,
         R     |-> R,
         rng   |-> Skip(g, m + 1),
         panic |-> ~ok,
         reads |-> Indices(crs.u)]

batch_commit_G1(xvars, crs, g) ==
    LET m     == Len(xvars)
        R     == [i \in 1 .. m |->
                     LET r == Fr_rand(Skip(g, i - 1)) IN [j \in 1 .. 2 |-> r]]
        lin_x == vec_to_col_vec(Com1_batch_linear_map(xvars))
        ok    == /\ MulDimsOK(crs.u, R)
                 /\ AddDimsOK(lin_x, left_mul(crs.u, R, FALSE))
    IN  [out   |-> IF ok THEN col_vec_to_vec(add(lin_x, left_mul(crs.u, R, FALSE)))
                         ELSE <<>>,
         R     |-> R,
         rng   |-> Skip(g, m),
         panic |-> ~ok,
         reads |-> IF m = 0 THEN {} ELSE Indices(crs.u)]

\* commit_scalar_to_B1 that embeds the scalar with the group embedding.
commit_scalar_to_B1_group_embed(scalar_xvar, crs, g) ==
    LET r == Fr_rand(g)
    IN  [out   |-> <<ComAdd(Com1_linear_map(scalar_xvar),
                            scalar_mul(At(crs.u, 0, 0), r))>>,
         R     |-> <<<<r>>>>,
         rng   |-> Advance(g),
         panic |-> FALSE,
         reads |-> {<<0, 0>>}]

\* commit_scalar_to_B1 that draws from a copy of the source and leaves the
\* caller's source where it was.
commit_scalar_to_B1_stale_rng(scalar_xvar, crs, g) ==
    LET r == Fr_rand(g)
    IN  [out   |-> <<ComAdd(Com1_scalar_linear_map(scalar_xvar, crs),
                            scalar_mul(At(crs.u, 0, 0), r))>>,
         R     |-> <<<<r>>>>,
         rng   |-> g,
         panic |-> FALSE,
         reads |-> {<<0, 0>>}]

commit_scalar_to_B1(scalar_xvar, crs, g) ==
    LET r == Fr_rand(g)
    IN  [out   |-> <<ComAdd(Com1_scalar_linear_map(scalar_xvar, crs),
                            scalar_mul(At(crs.u, 0, 0), r))>>,
         R     |-> <<<<r>>>>,
         rng   |-> Advance(g),
         panic |-> FALSE,
         reads |-> {<<0, 0>>}]

batch_commit_scalar_to_B1(scalar_xvars, crs, g) ==
    LET mprime == Len(scalar_xvars)
        r      == [i \in 1 .. mprime |-> <<Fr_rand(Skip(g, i - 1))>>]
        slin_x == vec_to_col_vec(Com1_batch_scalar_linear_map(scalar_xvars, crs))
        rvec   == col_vec_to_vec(r)
        ru     == vec_to_col_vec([i \in 1 .. Len(rvec) |->
                                     scalar_mul(At(crs.u, 0, 0), rvec[i])])
        ok     == AddDimsOK(slin_x, ru)
    IN  [out   |-> IF ok THEN col_vec_to_vec(add(slin_x, ru)) ELSE <<>>,
         R     |-> r,
         rng   |-> Skip(g, mprime),
         panic |-> ~ok,
         reads |-> IF mprime = 0 THEN {} ELSE {<<0, 0>>}]

\* commit_G2 that uses its first randomiser for both basis elements.
commit_G2_reuse(yvar, crs, g) ==
    LET s1 == Fr_rand(g)
        g1 == Advance(g)
        s2 == Fr_rand(g1)
        g2 == Advance(g1)
    IN  [out   |-> <<ComAdd(ComAdd(Com2_linear_map(yvar),
                                   scalar_mul(At(crs.v, 0, 0), s1)),
                            scalar_mul(At(crs.v, 1, 0), s1))>>,
         R     |-> <<<<s1, s2>>>>,
         rng   |-> g2,
         panic |-> FALSE,
         reads |-> {<<0, 0>>, <<1, 0>>}]

commit_G2(yvar, crs, g) ==
    LET s1 == Fr_rand(g)
        g1 == Advance(g)
        s2 == Fr_rand(g1)
        g2 == Advance(g1)
    IN  [out   |-> <<ComAdd(ComAdd(Com2_linear_map(yvar),
                                   scalar_mul(At(crs.v, 0, 0), s1)),
                            scalar_mul(At(crs.v, 1, 0), s2))>>,
         R     |-> <<<<s1, s2>>>>,
         rng   |-> g2,
         panic |-> FALSE,
         reads |-> {<<0, 0>>, <<1, 0>>}]

\* batch_commit_G2 that draws the two entries of a row separately.
batch_commit_G2_two_draws(yvars, crs, g) ==
    LET n     == Len(yvars)
        S     == [i \in 1 .. n |->
                     <<Fr_rand(Skip(g, 2 * i - 2)), Fr_rand(Skip(g, 2 * i - 1))>>]
        lin_y == vec_to_col_vec(Com2_batch_linear_map(yvars))
        ok    == /\ MulDimsOK(crs.v, S)
                 /\ AddDimsOK(lin_y, left_mul(crs.v, S, FALSE))
    IN  [out   |-> IF ok THEN col_vec_to_vec(add(lin_y, left_mul(crs.v, S, FALSE)))
                         ELSE <<>>,
         R     |-> S,
         rng   |-> Skip(g, 2 * n),
         panic |-> ~ok,
         reads |-> IF n = 0 THEN {} ELSE Indices(crs.v)]

\* batch_commit_G2 whose rows of randomness hold one scalar instead of two.
batch_commit_G2_short_rows(yvars, crs, g) ==
    LET n     == Len(yvars)
        S     == [i \in 1 .. n |->
                     LET s == Fr_rand(Skip(g, i - 1)) IN [j \in 1 .. 1 |-> s]]
        lin_y == vec_to_col_vec(Com2_batch_linear_map(yvars))
        ok    == /\ MulDimsOK(crs.v, S)
                 /\ AddDimsOK(lin_y, left_mul(crs.v, S, FALSE))
    IN  [out   |-> IF ok THEN col_vec_to_vec(add(lin_y, left_mul(crs.v, S, FALSE)))
                         ELSE <<>>,
         R     |-> S,
         rng   |-> Skip(g, n),
         panic |-> ~ok,
         reads |-> IF n = 0 THEN {} ELSE Indices(crs.v)]

batch_commit_G2(yvars, crs, g) ==
    LET n     == Len(yvars)
        S     == [i \in 1 .. n |->
                     LET s == Fr_rand(Skip(g, i - 1)) IN [j \in 1 .. 2 |-> s]]
        lin_y == vec_to_col_vec(Com2_batch_linear_map(yvars))
        ok    == /\ MulDimsOK(crs.v, S)
                 /\ AddDimsOK(lin_y, left_mul(crs.v, S, FALSE))
    IN  [out   |-> IF ok THEN col_vec_to_vec(add(lin_y, left_mul(crs.v, S, FALSE)))
                         ELSE <<>>,
         R     |-> S,
         rng   |-> Skip(g, n),
         panic |-> ~ok,
         reads |-> IF n = 0 THEN {} ELSE Indices(crs.v)]

commit_scalar_to_B2(scalar_yvar, crs, g) ==
    LET s == Fr_rand(g)
    IN  [out   |-> <<ComAdd(Com2_scalar_linear_map(scalar_yvar, crs),
                            scalar_mul(At(crs.v, 0, 0), s))>>,
         R     |-> <<<<s>>>>,
         rng   |-> Advance(g),
         panic |-> FALSE,
         reads |-> {<<0, 0>>}]

\* batch_commit_scalar_to_B2 that draws once and blinds every input with it.
batch_commit_scalar_to_B2_one_draw(scalar_yvars, crs, g) ==
    LET nprime == Len(scalar_yvars)
        s      == [i \in 1 .. nprime |-> <<Fr_rand(g)>>]
        slin_y == vec_to_col_vec(Com2_batch_scalar_linear_map(scalar_yvars, crs))
        svec   == col_vec_to_vec(s)
        sv     == vec_to_col_vec([i \in 1 .. Len(svec) |->
                                     scalar_mul(At(crs.v, 0, 0), svec[i])])
        ok     == AddDimsOK(slin_y, sv)
    IN  [out   |-> IF ok THEN col_vec_to_vec(add(slin_y, sv)) ELSE <<>>,
         R     |-> s,
         rng   |-> IF nprime = 0 THEN g ELSE Advance(g),
         panic |-> ~ok,
         reads |-> IF nprime = 0 THEN {} ELSE {<<0, 0>>}]

batch_commit_scalar_to_B2(scalar_yvars, crs, g) ==
    LET nprime == Len(scalar_yvars)
        s      == [i \in 1 .. nprime |-> <<Fr_rand(Skip(g, i - 1))>>]
        slin_y == vec_to_col_vec(Com2_batch_scalar_linear_map(scalar_yvars, crs))
        svec   == col_vec_to_vec(s)
        sv     == vec_to_col_vec([i \in 1 .. Len(svec) |->
                                     scalar_mul(At(crs.v, 0, 0), svec[i])])
        ok     == AddDimsOK(slin_y, sv)
    IN  [out   |-> IF ok THEN col_vec_to_vec(add(slin_y, sv)) ELSE <<>>,
         R     |-> s,
         rng   |-> Skip(g, nprime),
         panic |-> ~ok,
         reads |-> IF nprime = 0 THEN {} ELSE {<<0, 0>>}]

-----------------------------------------------------------------------------
(* State.                                                                  *)
(*   key    the commitment key shared by all calls                         *)
(*   rng    the caller's randomness source                                 *)
(*   call   the most recent call: operation, inputs, source position       *)
(*          before it (n0) and what the operation returned                 *)
(*   spent  the draws used as randomisers by the calls before it           *)

\* The indices of the draws that populate the randomness matrix R.
RandIds(R) == UNION {{R[i][j].d : j \in 1 .. Len(R[i])} : i \in 1 .. Len(R)}

NoCall ==
    [op |-> "none", xs |-> <<>>, n0 |-> 0, out |-> <<>>, R |-> <<>>,
     panic |-> FALSE, reads |-> {}]

\* The caller's record of a call of op on inputs xs that returned res.
Record(op, xs, res) ==
    [op |-> op, xs |-> xs, n0 |-> rng.n, out |-> res.out, R |-> res.R,
     panic |-> res.panic, reads |-> res.reads]

\* A call that returned res: the source has advanced, the key is only read.
Return(op, xs, res) ==
    /\ res.rng.n <= MaxDraws
    /\ call' = Record(op, xs, res)
    /\ rng' = res.rng
    /\ spent' = spent \cup RandIds(call.R)
    /\ UNCHANGED key

Streams == [1 .. MaxDraws -> Fr]

\* The key of the code: u and v are the columns (u_1, u_2) and (v_1, v_2).
Init ==
    /\ key = CRS(1)
    /\ rng \in {[n |-> 0, stream |-> st] : st \in Streams}
    /\ call = NoCall
    /\ spent = {}

\* Any key with two rows: one column, or two.
InitAnyKey ==
    /\ key \in {CRS(c) : c \in {1, 2}}
    /\ rng \in {[n |-> 0, stream |-> st] : st \in Streams}
    /\ call = NoCall
    /\ spent = {}

Call_commit_G1 ==
    \E xvar \in G1Affine :
        Return("commit_G1", <<xvar>>, commit_G1(xvar, key, rng))

Call_batch_commit_G1 ==
    \E xvars \in Vecs(G1Affine) :
        Return("batch_commit_G1", xvars, batch_commit_G1(xvars, key, rng))

Call_commit_scalar_to_B1 ==
    \E x \in Fr :
        Return("commit_scalar_to_B1", <<x>>, commit_scalar_to_B1(x, key, rng))

Call_batch_commit_scalar_to_B1 ==
    \E xs \in Vecs(Fr) :
        Return("batch_commit_scalar_to_B1", xs, batch_commit_scalar_to_B1(xs, key, rng))

Call_commit_G2 ==
    \E yvar \in G2Affine :
        Return("commit_G2", <<yvar>>, commit_G2(yvar, key, rng))

Call_batch_commit_G2 ==
    \E yvars \in Vecs(G2Affine) :
        Return("batch_commit_G2", yvars, batch_commit_G2(yvars, key, rng))

Call_commit_scalar_to_B2 ==
    \E y \in Fr :
        Return("commit_scalar_to_B2", <<y>>, commit_scalar_to_B2(y, key, rng))

Call_batch_commit_scalar_to_B2 ==
    \E ys \in Vecs(Fr) :
        Return("batch_commit_scalar_to_B2", ys, batch_commit_scalar_to_B2(ys, key, rng))

Next ==
    \/ Call_commit_G1
    \/ Call_batch_commit_G1
    \/ Call_commit_scalar_to_B1
    \/ Call_batch_commit_scalar_to_B1
    \/ Call_commit_G2
    \/ Call_batch_commit_G2
    \/ Call_commit_scalar_to_B2
    \/ Call_batch_commit_scalar_to_B2

Spec == Init /\ [][Next]_vars

SpecAnyKey == InitAnyKey /\ [][Next]_vars

-----------------------------------------------------------------------------
(* Vocabulary of the properties.                                           *)

\* embed + c00 * key[0][0] + c10 * key[1][0] on the given side, where embed
\* is i(lin) + i'(slin).
Expect(side, lin, slin, c00, c10) ==
    [side |-> side, lin |-> lin, slin |-> slin,
     k |-> [ix \in KeyIdx |-> IF ix = <<0, 0>> THEN c00
                              ELSE IF ix = <<1, 0>> THEN c10 ELSE 0]]

\* The n-th scalar the source issues, counted from its seeding.
Issued(n) == [d |-> n, s |-> rng.stream[n]]

\* The source as it was when the most recent call started.
Before == [n |-> call.n0, stream |-> rng.stream]

SideOf(op) == IF op \in {"commit_G1", "batch_commit_G1", "commit_scalar_to_B1",
                         "batch_commit_scalar_to_B1"} THEN 1 ELSE 2

KeyOf(op) == IF SideOf(op) = 1 THEN key.u ELSE key.v

BatchG == {"batch_commit_G1", "batch_commit_G2"}
BatchScalar == {"batch_commit_scalar_to_B1", "batch_commit_scalar_to_B2"}
SingleG == {"commit_G1", "commit_G2"}
SingleScalar == {"commit_scalar_to_B1", "commit_scalar_to_B2"}

\* M has m rows of c entries each.
IsDims(M, m, c) == Len(M) = m /\ \A i \in 1 .. Len(M) : Len(M[i]) = c

\* The same element on the other side: u's entries stand for v's.
Mirror(c) == [c EXCEPT !.side = 3 - c.side]

MirrorAll(cs) == [i \in 1 .. Len(cs) |-> Mirror(cs[i])]

\* What a side-1 operation returned agrees with what its side-2 counterpart
\* returned, term by term.
SameAcrossSides(r1, r2) ==
    /\ r2.out = MirrorAll(r1.out)
    /\ r2.R = r1.R
    /\ r2.rng = r1.rng
    /\ r2.reads = r1.reads
    /\ r2.panic = r1.panic

\* The most recent call, in the shape the operations return.
Returned == [out |-> call.out, R |-> call.R, rng |-> rng, panic |-> call.panic,
             reads |-> call.reads]

-----------------------------------------------------------------------------
(* C1.  commit_G1 makes two draws, r1 then r2, and returns                 *)
(* i_1(x) + r1 * u[0][0] + r2 * u[1][0]; commit_G2 does the same with v.   *)
(* No entry of the key outside the first column is read or enters the      *)
(* result.                                                                 *)
C1_SingleGroupCommit ==
    call.op \in SingleG =>
        /\ ~call.panic
        /\ rng.n = call.n0 + 2
        /\ call.R = <<<<Issued(call.n0 + 1), Issued(call.n0 + 2)>>>>
        /\ call.out = <<Expect(SideOf(call.op), call.xs[1], 0,
                               rng.stream[call.n0 + 1], rng.stream[call.n0 + 2])>>
        /\ call.reads = {<<0, 0>>, <<1, 0>>}

C1_Witness ==
    /\ call.op = "commit_G2"
    /\ Len(key.v[1]) = 2
    /\ call.xs[1] # 0
    /\ call.R[1][1].s = 0
    /\ call.R[1][2].s # 0

C3_IndependentEntries ==
    call.op \in BatchG =>
        /\ rng.n = call.n0 + 2 * Len(call.xs)
        /\ Cardinality(RandIds(call.R)) = 2 * Len(call.xs)
        /\ \A i \in 1 .. Len(call.R) : call.R[i][1].d # call.R[i][2].d

(* C4.  commit_scalar_to_B1 makes one draw r and returns                   *)
(* i_1'(x) + r * u[0][0], with the scalar embedding and not the group      *)
(* embedding; commit_scalar_to_B2 likewise with v.  The second basis       *)
(* element is neither read nor part of the result.                         *)
C4_SingleScalarCommit ==
    call.op \in SingleScalar =>
        /\ ~call.panic
        /\ rng.n = call.n0 + 1
        /\ call.R = <<<<Issued(call.n0 + 1)>>>>
        /\ call.out = <<Expect(SideOf(call.op), 0, call.xs[1],
                               rng.stream[call.n0 + 1], 0)>>
        /\ call.reads = {<<0, 0>>}

C4_Witness ==
    /\ call.op = "commit_scalar_to_B1"
    /\ Len(key.u[1]) = 2
    /\ call.xs[1] # 0
    /\ call.R[1][1].s # 0

(* C5.  A batch commitment of m' scalars makes m' draws, one per input in  *)
(* input order, and returns m' elements, the i-th being                    *)
(* i'(x_i) + r_i * u[0][0] with r_i the i-th draw.                         *)
C5_BatchScalarCommit ==
    call.op \in BatchScalar =>
        LET m == Len(call.xs)
        IN  /\ ~call.panic
            /\ rng.n = call.n0 + m
            /\ call.R = [i \in 1 .. m |-> <<Issued(call.n0 + i)>>]
            /\ Len(call.out) = m
            /\ \A i \in 1 .. m :
                call.out[i] = Expect(SideOf(call.op), 0, call.xs[i],
                                     rng.stream[call.n0 + i], 0)
            /\ call.reads \subseteq {<<0, 0>>}

C5_Witness ==
    /\ call.op = "batch_commit_scalar_to_B2"
    /\ Len(call.xs) = 2
    /\ call.xs[1] # call.xs[2]
    /\ call.R[1][1].s # call.R[2][1].s
    /\ Len(call.out) = 2

(* C6.  A batch operation on the empty sequence returns the empty          *)
(* sequence, does not fail, draws nothing and reads no key entry.          *)
C6_EmptyBatch ==
    (call.op \in BatchG \cup BatchScalar /\ Len(call.xs) = 0) =>
        /\ call.out = <<>>
        /\ ~call.panic
        /\ rng.n = call.n0
        /\ RandIds(call.R) = {}
        /\ call.reads = {}

C6_Witness ==
    /\ call.op \in BatchG
    /\ Len(call.xs) = 0
    /\ call.n0 > 0
    /\ call.out = <<>>

(* C7.  The sum of two single commitments is the commitment of the sum of  *)
(* the values under the sum of the randomisers:                            *)
(* commit(x1, r1) + commit(x2, r2) = embed(x1 + x2) + (r1 + r2) * basis.   *)
C7_Homomorphism ==
    /\ call.op \in SingleG =>
        \A x2 \in G1Affine, a \in Fr, b \in Fr :
            LET two == IF call.op = "commit_G1"
                       THEN commit_G1(x2, key, Seeded(<<a, b>>))
                       ELSE commit_G2(x2, key, Seeded(<<a, b>>))
            IN  ComAdd(call.out[1], two.out[1]) =
                    Expect(SideOf(call.op), (call.xs[1] + x2) % P, 0,
                           (call.R[1][1].s + a) % P, (call.R[1][2].s + b) % P)
    /\ call.op \in SingleScalar =>
        \A x2 \in Fr, a \in Fr :
            LET two == IF call.op = "commit_scalar_to_B1"
                       THEN commit_scalar_to_B1(x2, key, Seeded(<<a>>))
                       ELSE commit_scalar_to_B2(x2, key, Seeded(<<a>>))
            IN  ComAdd(call.out[1], two.out[1]) =
                    Expect(SideOf(call.op), 0, (call.xs[1] + x2) % P,
                           (call.R[1][1].s + a) % P, 0)

C7_Witness ==
    /\ call.op = "commit_G1"
    /\ call.xs[1] # 0
    /\ call.R[1][1].s # call.R[1][2].s

(* C8.  Each side-2 operation is its side-1 counterpart with v for u and   *)
(* the side-2 embedding: from the same inputs and the same state of the    *)
(* source both make the same draws in the same order, read the same key    *)
(* positions and combine the terms alike.                                  *)
C8_Symmetry ==
    /\ call.op = "commit_G2" =>
        SameAcrossSides(commit_G1(call.xs[1], key, Before), Returned)
    /\ call.op = "batch_commit_G2" =>
        SameAcrossSides(batch_commit_G1(call.xs, key, Before), Returned)
    /\ call.op = "commit_scalar_to_B2" =>
        SameAcrossSides(commit_scalar_to_B1(call.xs[1], key, Before), Returned)
    /\ call.op = "batch_commit_scalar_to_B2" =>
        SameAcrossSides(batch_commit_scalar_to_B1(call.xs, key, Before), Returned)
    /\ call.op = "commit_G1" =>
        SameAcrossSides(Returned, commit_G2(call.xs[1], key, Before))
    /\ call.op = "batch_commit_G1" =>
        SameAcrossSides(Returned, batch_commit_G2(call.xs, key, Before))
    /\ call.op = "commit_scalar_to_B1" =>
        SameAcrossSides(Returned, commit_scalar_to_B2(call.xs[1], key, Before))
    /\ call.op = "batch_commit_scalar_to_B1" =>
        SameAcrossSides(Returned, batch_commit_scalar_to_B2(call.xs, key, Before))

C8_Witness ==
    /\ call.op = "batch_commit_G2"
    /\ Len(call.xs) = 2
    /\ call.xs[2] # 0
    /\ call.R[2][1].s # 0
    /\ Len(call.out) = 2

(* C9.  Over calls that share one source, every randomiser of a call is a  *)
(* draw made inside that call, the call advances the source by the number  *)
(* of scalars it draws, no draw serves two calls, and the key stays as it  *)
(* was.                                                                    *)
C9_NoReuseAcrossCalls ==
    /\ RandIds(call.R) \subseteq (call.n0 + 1) .. rng.n
    /\ rng.n = call.n0 + Cardinality(RandIds(call.R))
    /\ \A i \in 1 .. Len(call.R) : \A j \in 1 .. Len(call.R[i]) :
           call.R[i][j] = Issued(call.R[i][j].d)
    /\ RandIds(call.R) \cap spent = {}
    /\ spent \subseteq 1 .. call.n0
    /\ key = CRS(1)

C9_Witness ==
    /\ spent # {}
    /\ RandIds(call.R) # {}
    /\ call.op \in BatchScalar

====
